---------------------------- MODULE Spec2Model ----------------------------
(***************************************************************************)
(* A model of cpuloadgen.c: main() parses the command line into the global *)
(* buffers cpuloads/threads and the global duration, spawns one pthread    *)
(* per configured core (thread_loadgen -> loadgen), joins them and frees   *)
(* the buffers; sigterm_handler() frees the same buffers asynchronously.   *)
(*                                                                         *)
(* Wall-clock time is read in whole seconds at a few representative        *)
(* instants; burst costs are microsecond integers drawn from ActiveTimes.  *)
(* unsigned int is modelled UIntBits wide (the platform's is 32 bits; the  *)
(* width is scaled so that 2^UIntBits stays inside the integers that can   *)
(* be enumerated), long is twice as wide (LP64).                           *)
(***************************************************************************)
EXTENDS Integers, Sequences, FiniteSets, TLC

(* ------------------------------ bounds --------------------------------- *)

\* sysconf(_SC_NPROCESSORS_ONLN) of the modelled host
MaxCpu == 2
\* largest argc - 1
MaxArgs == 2
\* SIGTERM deliveries in one run
MaxSignals == 1
\* pthread_create failures in one run
MaxCreateFail == 1
\* modelled width of unsigned int
UIntBits == 8

(* --------------------------- program constants ------------------------- *)

EINVAL == 22
ENOMEM == 12
\* the load that selects the loop without idle phase
FullLoad == 100
\* initial value of threads[i], cpuloads[i] (argc > 1) and duration
Unset == -1

UIntMod == 2 ^ UIntBits
UIntMax == UIntMod - 1

\* (unsigned int) x for an integer x: reduction modulo 2^w
ToUInt(x) == x % UIntMod

\* C's integer conversion of a quotient: truncation toward zero
TruncDiv(a, b) == IF a >= 0 THEN a \div b ELSE -((-a) \div b)

(* ------------------------------ inputs --------------------------------- *)

Cores == 0 .. (MaxCpu - 1)

\* results of sysconf(): a failure, or the host's core count
CpuCounts == {-1, MaxCpu}

\* n of "cpu<n>=<load>": below, inside and just above [0, cpu_count)
CpuArgs == -1 .. MaxCpu
\* load of "cpu<n>=<load>": just outside [1, 100], a partial load, full load
LoadArgs == {0, 50, FullLoad, FullLoad + 1}
\* T of "duration=<T>": 0 (rejected), 1, and two values beyond unsigned int
DurationArgs == {0, 1, UIntMod, UIntMod + 1}

\* An argument after sscanf: c is argv[i][0] ("x": any other first letter),
\* ret the number of conversions sscanf made, n/load/T the converted values.
ArgSet ==
    [c : {"c"}, ret : {2}, n : CpuArgs, v : LoadArgs]
        \cup [c : {"c"}, ret : {1}, n : {0}, v : {0}]
        \cup [c : {"d"}, ret : {1}, n : {0}, v : DurationArgs]
        \cup [c : {"d"}, ret : {0}, n : {0}, v : {0}]
        \cup [c : {"x"}, ret : {0}, n : {0}, v : {0}]

Argvs == UNION {[1 .. k -> ArgSet] : k \in 0 .. MaxArgs}

\* measured burst cost (workload_end_time - workload_start_time) * 1e6:
\* negative when the wall clock steps back during the burst
ActiveTimes == {-3, 4}

\* wall-clock readings, in seconds
Instants == {0, UIntMax, UIntMod}

(* ------------------------------- state --------------------------------- *)

VARIABLES
    argv,        \* the command line (argv[1..argc-1]) after sscanf
    cpu_count,   \* global cpu_count
    sysconf,     \* what sysconf(_SC_NPROCESSORS_ONLN) returns on this host
    cpuloads,    \* global buffer cpuloads[0..cpu_count-1]
    threads,     \* global buffer threads[0..cpu_count-1] (thread handle or -1)
    duration,    \* global long duration
    allocated,   \* both buffers were malloc'ed
    frees,       \* how often free() was applied to each buffer
    mutex1,      \* "unlocked" | "locked"
    mpc,         \* main's position
    mi,          \* main's i
    cpu,         \* main's block-scoped hand-off variable cpu
    ret,         \* the value main is about to return
    nfail,       \* pthread_create failures so far
    failed,      \* cores whose pthread_create failed
    tpc,         \* per thread: position
    tcpu,        \* per thread: thread_loadgen's local cpu
    tload,       \* per thread: loadgen's parameter load
    tdur,        \* per thread: loadgen's parameter duration
    tstart,      \* per thread: loadgen_start_time_us (seconds)
    tactive,     \* per thread: active_time_us of the current iteration
    tsleep,      \* per thread: argument of the usleep of the current iteration
    now,         \* wall clock, seconds
    sigs,        \* SIGTERM deliveries so far
    signalled,   \* threads that a delivered SIGTERM found inside their loop
    proc,        \* "running" | "exited" | "crashed"
    exitCode     \* the process's exit status once exited

mainVars == <<argv, cpu_count, sysconf, cpuloads, threads, duration, allocated,
              mpc, mi, cpu, ret, nfail, failed>>
taskVars == <<tpc, tcpu, tload, tdur, tstart, tactive, tsleep>>
vars == <<mainVars, taskVars, frees, mutex1, now, sigs, signalled, proc,
          exitCode>>

\* a wrong count: the program name is not counted
argcWithoutProgram == Len(argv)

argc == Len(argv) + 1

Init ==
    /\ argv \in Argvs
    /\ sysconf \in CpuCounts
    /\ cpu_count = -1
    /\ cpuloads = [i \in Cores |-> 0]
    /\ threads = [i \in Cores |-> 0]
    /\ duration = -1
    /\ allocated = FALSE
    /\ frees = [threads |-> 0, cpuloads |-> 0]
    /\ mutex1 = "unlocked"
    /\ mpc = "start"
    /\ mi = 0
    /\ cpu = 0
    /\ ret = 0
    /\ nfail = 0
    /\ failed = {}
    /\ tpc = [t \in Cores |-> "none"]
    /\ tcpu = [t \in Cores |-> 0]
    /\ tload = [t \in Cores |-> 0]
    /\ tdur = [t \in Cores |-> 0]
    /\ tstart = [t \in Cores |-> 0]
    /\ tactive = [t \in Cores |-> 0]
    /\ tsleep = [t \in Cores |-> 0]
    /\ now = 0
    /\ sigs = 0
    /\ signalled = {}
    /\ proc = "running"
    /\ exitCode = 0

(* --------------------- buffers and undefined reads --------------------- *)

\* the buffers were handed to free() at least once
Released == frees.cpuloads > 0 \/ frees.threads > 0

\* free_buffers(): free() is applied to every non-NULL pointer; the pointers
\* are not reset, so a second call frees the same allocations again.
free_buffers(f) ==
    IF allocated
    THEN [threads |-> f.threads + 1, cpuloads |-> f.cpuloads + 1]
    ELSE f

\* A second free() of the same allocation is undefined: the allocator may
\* abort the process or carry on.
AfterFree(f) == IF allocated /\ (f.threads > 0 \/ f.cpuloads > 0)
                THEN {"running", "crashed"}
                ELSE {"running"}

\* contents a freed cpuloads cell may be read as
GarbageLoads == {Unset, 50, FullLoad}

\* what a read of cpuloads[i] can yield: the stored value, or anything once
\* the buffer was freed
ReadCpuloads(i) ==
    IF frees.cpuloads > 0 THEN GarbageLoads ELSE {cpuloads[i]}

\* what a read of threads[i] can yield
ReadThreads(i) ==
    IF frees.threads > 0 THEN {Unset} \cup Cores ELSE {threads[i]}


(* -------------------------------- main --------------------------------- *)

Running == proc = "running"

\* einval(), and the two duplicate checks of main: free_buffers() and
\* "return -EINVAL" (the return itself is main_return).
einval ==
    /\ frees' = free_buffers(frees)
    /\ \E p \in AfterFree(frees) : proc' = p
    /\ ret' = -EINVAL
    /\ mpc' = "ret"

\* main, lines 206-239: signal(), sysconf(), the two malloc()s and the
\* initialisation of the buffers and of duration.
main_start ==
    /\ Running /\ mpc = "start"
    /\ cpu_count' = sysconf
    /\ \/ /\ sysconf < 1
          /\ proc' = "exited" /\ exitCode' = sysconf
          /\ UNCHANGED <<allocated, threads, cpuloads, mpc, mi>>
       \/ /\ sysconf >= 1
          \* malloc() returned NULL for a buffer
          /\ proc' = "exited" /\ exitCode' = -ENOMEM
          /\ UNCHANGED <<allocated, threads, cpuloads, mpc, mi>>
       \/ /\ sysconf >= 1
          /\ allocated' = TRUE
          /\ threads' = [i \in Cores |-> Unset]
          /\ cpuloads' = [i \in Cores |-> IF argc = 1 THEN FullLoad ELSE Unset]
          /\ mpc' = IF argc = 1 THEN "spawn" ELSE "parse"
          /\ mi' = IF argc = 1 THEN 0 ELSE 1
          /\ UNCHANGED <<proc, exitCode>>
    /\ duration' = -1
    /\ UNCHANGED <<argv, sysconf, cpu, ret, nfail, failed, taskVars, frees,
                   mutex1, now, sigs, signalled>>

\* the test of a "cpu<n>=<load>" argument, lines 245-247
BadCpuArg(a) ==
    \/ a.ret # 2
    \/ a.n < 0 \/ a.n >= cpu_count
    \/ a.v < 1 \/ a.v > 100

\* a wrong test: any converted duration is accepted
BadDurationArgUnchecked(a) == a.ret # 1

\* the test of a "duration=<T>" argument, line 262
BadDurationArg(a) == a.ret # 1 \/ a.v < 1

\* main, lines 241-278: one iteration of the argument loop
main_parse ==
    /\ Running /\ mpc = "parse"
    /\ IF mi >= argc
       THEN /\ mpc' = "spawn" /\ mi' = 0
            /\ UNCHANGED <<cpuloads, duration, frees, proc, ret>>
       ELSE LET a == argv[mi] IN
            CASE a.c = "c" ->
                   IF BadCpuArg(a)
                   THEN einval /\ UNCHANGED <<cpuloads, duration, mi>>
                   ELSE \E cur \in ReadCpuloads(a.n) :
                          IF cur # Unset
                          THEN einval /\ UNCHANGED <<cpuloads, duration, mi>>
                          ELSE /\ cpuloads' = [cpuloads EXCEPT ![a.n] = a.v]
                               /\ mi' = mi + 1
                               /\ UNCHANGED <<duration, frees, proc, ret, mpc>>
              [] a.c = "d" ->
                   IF BadDurationArg(a) \/ duration # -1
                   THEN einval /\ UNCHANGED <<cpuloads, duration, mi>>
                   ELSE /\ duration' = a.v
                        /\ mi' = mi + 1
                        /\ UNCHANGED <<cpuloads, frees, proc, ret, mpc>>
              [] OTHER -> einval /\ UNCHANGED <<cpuloads, duration, mi>>
    /\ UNCHANGED <<argv, cpu_count, sysconf, threads, allocated, cpu, nfail,
                   failed, taskVars, mutex1, now, sigs, signalled, exitCode>>

\* main, lines 284-298: the loop test, the skip of a core without load,
\* pthread_mutex_lock(&mutex1) (blocks while the mutex is held) and cpu = i
main_spawn ==
    /\ Running /\ mpc = "spawn"
    /\ IF mi >= cpu_count
       THEN /\ mpc' = "join" /\ mi' = 0
            /\ UNCHANGED <<mutex1, cpu>>
       ELSE \E v \in ReadCpuloads(mi) :
              IF v = Unset
              THEN /\ mi' = mi + 1
                   /\ UNCHANGED <<mpc, mutex1, cpu>>
              ELSE /\ mutex1 = "unlocked"
                   /\ mutex1' = "locked"
                   /\ cpu' = mi
                   /\ mpc' = "create"
                   /\ UNCHANGED mi
    /\ UNCHANGED <<argv, cpu_count, sysconf, cpuloads, threads, duration,
                   allocated, ret, nfail, failed, taskVars, frees, now, sigs,
                   signalled, proc, exitCode>>

\* main, lines 299-304: pthread_create(&threads[i], ..., &cpu) and the
\* "continue" on failure; the mutex stays locked either way
main_create ==
    /\ Running /\ mpc = "create"
    /\ \/ /\ threads' = [threads EXCEPT ![mi] = mi]
          /\ tpc' = [tpc EXCEPT ![mi] = "created"]
          /\ UNCHANGED <<nfail, failed>>
       \/ /\ nfail < MaxCreateFail
          /\ nfail' = nfail + 1
          /\ failed' = failed \cup {mi}
          /\ UNCHANGED <<threads, tpc>>
    /\ mi' = mi + 1
    /\ mpc' = "spawn"
    /\ UNCHANGED <<argv, cpu_count, sysconf, cpuloads, duration, allocated,
                   cpu, ret, tcpu, tload, tdur, tstart, tactive, tsleep,
                   frees, mutex1, now, sigs, signalled, proc, exitCode>>

\* h is the handle of a thread that exists
ValidHandle(h) == h \in Cores /\ tpc[h] # "none"

\* main, lines 307-312: one iteration of the join loop.  pthread_join()
\* blocks until the thread has terminated; on a value that is no handle
\* of a thread it is undefined (an error return, or a crash).
main_join ==
    /\ Running /\ mpc = "join"
    /\ IF mi >= cpu_count
       THEN /\ mpc' = "free"
            /\ UNCHANGED <<mi, proc>>
       ELSE \E v \in ReadCpuloads(mi) :
              IF v = Unset
              THEN /\ mi' = mi + 1
                   /\ UNCHANGED <<mpc, proc>>
              ELSE \E h \in ReadThreads(mi) :
                     IF ValidHandle(h)
                     THEN /\ tpc[h] = "done"
                          /\ mi' = mi + 1
                          /\ UNCHANGED <<mpc, proc>>
                     ELSE /\ \E p \in {"running", "crashed"} : proc' = p
                          /\ mi' = mi + 1
                          /\ UNCHANGED mpc
    /\ UNCHANGED <<argv, cpu_count, sysconf, cpuloads, threads, duration,
                   allocated, cpu, ret, nfail, failed, taskVars, frees,
                   mutex1, now, sigs, signalled, exitCode>>

\* main, lines 314-316: free_buffers() on the normal path
main_free ==
    /\ Running /\ mpc = "free"
    /\ frees' = free_buffers(frees)
    /\ \E p \in AfterFree(frees) : proc' = p
    /\ ret' = 0
    /\ mpc' = "ret"
    /\ UNCHANGED <<argv, cpu_count, sysconf, cpuloads, threads, duration,
                   allocated, mi, cpu, nfail, failed, taskVars, mutex1, now,
                   sigs, signalled, exitCode>>

\* "return ret" from main: the process exits and every thread ends with it
main_return ==
    /\ Running /\ mpc = "ret"
    /\ proc' = "exited"
    /\ exitCode' = ret
    /\ UNCHANGED <<mainVars, taskVars, frees, mutex1, now, sigs, signalled>>

(* --------------------------- thread_loadgen ---------------------------- *)

\* main is inside the spawn loop, where its variable cpu lives
InSpawnLoop == mpc \in {"spawn", "create"}

\* what "*((unsigned int *) ptr)" can yield: main's cpu while main is in
\* the spawn loop; once main has left the loop the pointer dangles and the
\* read is undefined.
ReadCpu == IF InSpawnLoop THEN {cpu} ELSE 0 .. MaxCpu

\* a wrong hand-off: the thread reads the index and keeps the mutex locked
thread_loadgen_capture_locked(t) ==
    /\ Running /\ tpc[t] = "created"
    /\ \E c \in ReadCpu : tcpu' = [tcpu EXCEPT ![t] = c]
    /\ tpc' = [tpc EXCEPT ![t] = "started"]
    /\ UNCHANGED <<mainVars, tload, tdur, tstart, tactive, tsleep, mutex1,
                   frees, now, sigs, signalled, proc, exitCode>>

\* thread_loadgen, lines 174-175: the read of the hand-off variable and
\* pthread_mutex_unlock(&mutex1)
thread_loadgen_capture(t) ==
    /\ Running /\ tpc[t] = "created"
    /\ \E c \in ReadCpu : tcpu' = [tcpu EXCEPT ![t] = c]
    /\ mutex1' = "unlocked"
    /\ tpc' = [tpc EXCEPT ![t] = "started"]
    /\ UNCHANGED <<mainVars, tload, tdur, tstart, tactive, tsleep,
                   frees, now, sigs, signalled, proc, exitCode>>

\* thread_loadgen, lines 176-183, and loadgen, lines 337-366: the range
\* check of cpu, the call loadgen(cpu, cpuloads[cpu], duration) with its
\* conversions to unsigned int, and the reading of the start time
thread_loadgen_call(t) ==
    /\ Running /\ tpc[t] = "started"
    /\ IF tcpu[t] < cpu_count
       THEN \E l \in ReadCpuloads(tcpu[t]) :
              /\ tload' = [tload EXCEPT ![t] = ToUInt(l)]
              /\ tdur' = [tdur EXCEPT ![t] = ToUInt(duration)]
              /\ tstart' = [tstart EXCEPT ![t] = now]
              /\ tpc' = [tpc EXCEPT ![t] = "burst"]
       ELSE /\ tpc' = [tpc EXCEPT ![t] = "done"]
            /\ UNCHANGED <<tload, tdur, tstart>>
    /\ UNCHANGED <<mainVars, tcpu, tactive, tsleep, frees, mutex1,
                   now, sigs, signalled, proc, exitCode>>

(* ------------------------------ loadgen -------------------------------- *)

\* a wrong mode test: the loop with an idle phase also for load 100
PartialLoadInclusive(load) == load <= FullLoad

\* loadgen, line 368: the loop with an idle phase is taken
PartialLoad(load) == load # FullLoad

\* (double) (load + 1), line 381: the sum is taken in unsigned int
LoadPlusOne(load) == ToUInt(load + 1)

\* a wrong idle time: the whole period, the burst not subtracted
TotalTime(load, active) == TruncDiv(active * 100, LoadPlusOne(load))

\* idle_time_us = active * (100.0 / (load + 1)) - active, lines 380-384,
\* with its fraction discarded as the conversion of line 392 does
IdleTime(load, active) ==
    TruncDiv(active * 100 - active * LoadPlusOne(load), LoadPlusOne(load))

\* a wrong sleep: the idle time, or one microsecond more
UsleepArgsJitter(load, active) ==
    IF LoadPlusOne(load) = 0
    THEN {0, UIntMax}
    ELSE {ToUInt(IdleTime(load, active)), ToUInt(IdleTime(load, active) + 1)}

\* (unsigned int) (idle_time_us), line 392.  The conversion of a double
\* whose integral part is no unsigned int (negative, too large, infinite
\* after the division by 0.0) is undefined: builds wrap it or saturate.
UsleepArgs(load, active) ==
    IF LoadPlusOne(load) = 0
    THEN {0, UIntMax}
    ELSE LET idle == IdleTime(load, active) IN
         IF idle < 0 THEN {ToUInt(idle), 0}
         ELSE IF idle > UIntMax THEN {ToUInt(idle), UIntMax}
         ELSE {idle}

\* the test of lines 413-414 and 425-426
DurationElapsed(dur, start, time) == dur # 0 /\ time - start >= dur

\* a wrong loop: the burst is measured and the deadline check follows at
\* once, without the idle phase
loadgen_burst_nosleep(t) ==
    /\ Running /\ tpc[t] = "burst"
    /\ IF PartialLoad(tload[t])
       THEN \E a \in ActiveTimes : tactive' = [tactive EXCEPT ![t] = a]
       ELSE UNCHANGED tactive
    /\ tpc' = [tpc EXCEPT ![t] = "check"]
    /\ UNCHANGED <<mainVars, tcpu, tload, tdur, tstart, tsleep,
                   frees, mutex1, now, sigs, signalled, proc, exitCode>>

\* loadgen, lines 371-375 (partial load) and 419 (full load): one burst
loadgen_burst(t) ==
    /\ Running /\ tpc[t] = "burst"
    /\ IF PartialLoad(tload[t])
       THEN /\ \E a \in ActiveTimes : tactive' = [tactive EXCEPT ![t] = a]
            /\ tpc' = [tpc EXCEPT ![t] = "sleep"]
       ELSE /\ tpc' = [tpc EXCEPT ![t] = "check"]
            /\ UNCHANGED tactive
    /\ UNCHANGED <<mainVars, tcpu, tload, tdur, tstart, tsleep,
                   frees, mutex1, now, sigs, signalled, proc, exitCode>>

\* loadgen, lines 380-392: the idle time and usleep()
loadgen_sleep(t) ==
    /\ Running /\ tpc[t] = "sleep"
    /\ \E u \in UsleepArgs(tload[t], tactive[t]) :
           tsleep' = [tsleep EXCEPT ![t] = u]
    /\ tpc' = [tpc EXCEPT ![t] = "check"]
    /\ UNCHANGED <<mainVars, tcpu, tload, tdur, tstart, tactive, frees,
                   mutex1, now, sigs, signalled, proc, exitCode>>

\* loadgen, lines 407-415 and 420-427: the deadline check; leaving the
\* loop ends loadgen and the thread (pthread_exit)
loadgen_check(t) ==
    /\ Running /\ tpc[t] = "check"
    /\ IF DurationElapsed(tdur[t], tstart[t], now)
       THEN /\ tpc' = [tpc EXCEPT ![t] = "done"]
            \* loadgen returns: its parameters and locals are gone
            /\ tload' = [tload EXCEPT ![t] = 0]
            /\ tdur' = [tdur EXCEPT ![t] = 0]
            /\ tstart' = [tstart EXCEPT ![t] = 0]
       ELSE /\ tpc' = [tpc EXCEPT ![t] = "burst"]
            /\ UNCHANGED <<tload, tdur, tstart>>
    /\ tactive' = [tactive EXCEPT ![t] = 0]
    /\ tsleep' = [tsleep EXCEPT ![t] = 0]
    /\ UNCHANGED <<mainVars, tcpu, frees, mutex1, now, sigs, signalled, proc,
                   exitCode>>

(* ------------------------- signal and the clock ------------------------ *)

\* sigterm_handler(): runs whenever SIGTERM arrives after signal() was
\* called; it frees the buffers and returns to the interrupted code
sigterm_handler ==
    /\ Running /\ mpc # "start"
    /\ sigs < MaxSignals
    /\ sigs' = sigs + 1
    /\ signalled' =
           signalled \cup {t \in Cores : tpc[t] \in {"burst", "sleep", "check"}}
    /\ frees' = free_buffers(frees)
    /\ \E p \in AfterFree(frees) : proc' = p
    /\ UNCHANGED <<mainVars, taskVars, mutex1, now, exitCode>>

\* the wall clock advances to a later instant
Tick ==
    /\ Running
    /\ \E later \in Instants : later > now /\ now' = later
    /\ UNCHANGED <<mainVars, taskVars, frees, mutex1, sigs, signalled, proc,
                   exitCode>>

(* --------------------------- specification ----------------------------- *)

Next ==
    \/ main_start
    \/ main_parse
    \/ main_spawn
    \/ main_create
    \/ main_join
    \/ main_free
    \/ main_return
    \/ \E t \in Cores : thread_loadgen_capture(t)
    \/ \E t \in Cores : thread_loadgen_call(t)
    \/ \E t \in Cores : loadgen_burst(t)
    \/ \E t \in Cores : loadgen_sleep(t)
    \/ \E t \in Cores : loadgen_check(t)
    \/ sigterm_handler
    \/ Tick

Spec == Init /\ [][Next]_vars

(* ------------------- loadgen alone, for every load --------------------- *)

\* the values of the global duration that main can hand to loadgen
Durations == {Unset} \cup {d \in DurationArgs : d >= 1}

\* "cpu<n>=<load>" and "duration=<T>" after sscanf
CpuArg(n, load) == [c |-> "c", ret |-> 2, n |-> n, v |-> load]
DurationArg(d) == [c |-> "d", ret |-> 1, n |-> 0, v |-> d]

\* The program just after the thread of core 0 has entered loadgen (lines
\* 337-366), started as "cpuloadgen cpu0=<load> [duration=<T>]" for any
\* load in [1, 100]: main waits in its join loop.
LoadgenInit ==
    \E load \in 1 .. 100, d \in Durations :
        /\ argv = IF d = Unset THEN <<CpuArg(0, load)>>
                  ELSE <<CpuArg(0, load), DurationArg(d)>>
        /\ sysconf = MaxCpu
        /\ cpu_count = MaxCpu
        /\ cpuloads = [i \in Cores |-> IF i = 0 THEN load ELSE Unset]
        /\ threads = [i \in Cores |-> IF i = 0 THEN 0 ELSE Unset]
        /\ duration = d
        /\ allocated = TRUE
        /\ frees = [threads |-> 0, cpuloads |-> 0]
        /\ mutex1 = "unlocked"
        /\ mpc = "join"
        /\ mi = 0
        /\ cpu = 0
        /\ ret = 0
        /\ nfail = 0
        /\ failed = {}
        /\ tpc = [t \in Cores |-> IF t = 0 THEN "burst" ELSE "none"]
        /\ tcpu = [t \in Cores |-> 0]
        /\ tload = [t \in Cores |-> IF t = 0 THEN ToUInt(load) ELSE 0]
        /\ tdur = [t \in Cores |-> IF t = 0 THEN ToUInt(d) ELSE 0]
        /\ tstart = [t \in Cores |-> 0]
        /\ tactive = [t \in Cores |-> 0]
        /\ tsleep = [t \in Cores |-> 0]
        /\ now = 0
        /\ sigs = 0
        /\ signalled = {}
        /\ proc = "running"
        /\ exitCode = 0

LoadgenNext ==
    \/ \E t \in Cores : loadgen_burst(t)
    \/ \E t \in Cores : loadgen_sleep(t)
    \/ \E t \in Cores : loadgen_check(t)
    \/ Tick

LoadgenSpec == LoadgenInit /\ [][LoadgenNext]_vars

(* ------------------------------- claims -------------------------------- *)

\* positions of a thread inside loadgen's loop
InLoop(t) == tpc[t] \in {"burst", "sleep", "check"}

\* the thread has read the hand-off variable
Captured(t) == tpc[t] \in {"started", "burst", "sleep", "check", "done"}

\* the thread exists and has not terminated
Alive(t) == tpc[t] \notin {"none", "done"}

\* C1: once SIGTERM was delivered while a task was running its loop, that
\* task leaves the loop at its next deadline check (it reaches its terminal
\* state there), whatever its load and duration.
C1_CancelAtNextCheck ==
    [][\A t \in Cores :
          (t \in signalled /\ tpc[t] = "check" /\ tpc'[t] # "check")
              => tpc'[t] = "done"]_vars

\* C2: in every state in which the buffers have been released, no task is
\* still before or inside its read of cpuloads or its loop, and main is
\* past its last read of cpuloads[i] and threads[i].
C2_ReleaseAfterTasks ==
    Released => /\ \A t \in Cores : ~Alive(t)
                /\ mpc = "ret"

\* C3: free() is never applied twice to the same allocation.
C3_FreedOnce == frees.threads <= 1 /\ frees.cpuloads <= 1

\* C4: every task captures the core index for which it was created, so no
\* two tasks observe the same index (stated for the runs in which no
\* SIGTERM is delivered, where main's reads of cpuloads are defined).
C4_CapturesOwnIndex ==
    sigs = 0 =>
        /\ \A t \in Cores : Captured(t) => tcpu[t] = t
        /\ \A t, u \in Cores :
              (Captured(t) /\ Captured(u) /\ t # u) => tcpu[t] # tcpu[u]

\* C5: after a failed pthread_create main does not hang in the spawn
\* loop: whenever it is there it can take its next step, or a created
\* thread is about to release the mutex it waits for.
C5_NoHangAfterCreateFailure ==
    (Running /\ failed # {} /\ mpc = "spawn")
        => (ENABLED main_spawn \/ \E t \in Cores : tpc[t] = "created")

\* C6: with a duration limit d >= 1 configured, a task whose deadline
\* check finds that d seconds have elapsed since its start leaves its loop
\* (so that every task terminates once the wall clock has advanced by d);
\* stated for the runs in which no SIGTERM is delivered.
C6_BoundedRun ==
    [][\A t \in Cores :
          (/\ duration >= 1 /\ sigs = 0
           /\ tpc[t] = "check" /\ tpc'[t] # "check"
           /\ now - tstart[t] >= duration)
              => tpc'[t] = "done"]_vars

\* C7: when no duration was supplied (duration = -1), no task leaves its
\* loop through the deadline check, whatever the elapsed time.
C7_IndefiniteNeverExpires ==
    [][\A t \in Cores :
          (duration = -1 /\ tpc[t] = "check") => tpc'[t] # "done"]_vars

\* the larger of two integers
Max(a, b) == IF a >= b THEN a ELSE b

\* C8: for a target load in [1, 99] (in a run without SIGTERM, where the
\* load is the configured one) the value handed to usleep is the idle
\* time total_time - active_time clamped to >= 0, never a negative number
\* converted to a huge unsigned duration.
C8_IdleClamped ==
    \A t \in Cores :
        (sigs = 0 /\ tpc[t] = "check" /\ tload[t] \in 1 .. 99)
            => tsleep[t] = Max(0, IdleTime(tload[t], tactive[t]))

\* C9: a task whose load is 100 is never in the idle computation or the
\* sleep and has issued no usleep; its steps are burst -> check and
\* check -> burst or termination; and the load that selected its mode is
\* not changed while it is in the loop.
C9_FullLoadNeverSleeps ==
    /\ [](\A t \in Cores :
            (InLoop(t) /\ tload[t] = FullLoad)
                => (tpc[t] # "sleep" /\ tsleep[t] = 0 /\ tactive[t] = 0))
    /\ [][\A t \in Cores :
            /\ (InLoop(t) /\ tload[t] = FullLoad /\ tpc'[t] # tpc[t])
                   => \/ tpc[t] = "burst" /\ tpc'[t] = "check"
                      \/ tpc[t] = "check" /\ tpc'[t] \in {"burst", "done"}
            /\ (InLoop(t) /\ tpc'[t] \in {"burst", "sleep", "check"})
                   => tload'[t] = tload[t]]_vars

\* C9 witness: a full-load task at its deadline check after a burst, with
\* wall-clock time elapsed since its start
C9_Witness ==
    \E t \in Cores :
        tpc[t] = "check" /\ tload[t] = FullLoad /\ now > tstart[t]

\* C10: once the spawn loop is over, a task was started for exactly the
\* cores with a load (a core whose pthread_create failed aside), and the
\* process has exited with code 0 only if every started task terminated.
C10_FanOutAndJoin ==
    /\ mpc \in {"join", "free", "ret"} /\ ret = 0
          => \A i \in Cores :
                i \notin failed => (tpc[i] # "none" <=> cpuloads[i] # Unset)
    /\ (proc = "exited" /\ exitCode = 0 /\ mpc = "ret")
          => \A t \in Cores : ~Alive(t)

\* the command line is "cpuloadgen duration=<T>" with an accepted T
DurationOnly ==
    /\ Len(argv) = 1
    /\ argv[1].c = "d" /\ argv[1].ret = 1 /\ argv[1].v >= 1

\* C11: for "cpuloadgen duration=<T>" (and no SIGTERM, no failing
\* pthread_create) main is past its spawn loop only with one task created
\* per detected core, and every task that runs loadgen runs it at load 100.
C11_DurationOnlyLoadsAllCores ==
    (DurationOnly /\ sigs = 0 /\ failed = {} /\ mpc \in {"join", "free", "ret"})
        => /\ \A i \in Cores : tpc[i] # "none"
           /\ \A t \in Cores : InLoop(t) => tload[t] = FullLoad

(* ------------ start-up: command line, spawn loop, hand-off ------------- *)

\* The program from its start until every created thread has entered
\* loadgen: main's initialisation, argument loop and spawn loop, the
\* threads' index capture and call of loadgen, and main's return on a
\* rejected command line.  No SIGTERM arrives meanwhile.
StartupNext ==
    \/ main_start
    \/ main_parse
    \/ main_spawn
    \/ main_create
    \/ main_return
    \/ \E t \in Cores : thread_loadgen_capture(t)
    \/ \E t \in Cores : thread_loadgen_call(t)

StartupSpec == Init /\ [][StartupNext]_vars

\* C12: without arguments (argc = 1), once the buffers are initialised
\* every detected core has load 100 and the duration is unset (-1); when
\* main is past the spawn loop a task was created for every core whose
\* pthread_create did not fail, and every task inside loadgen has load 100.
C12_DefaultConfiguration ==
    (Len(argv) = 0 /\ mpc # "start")
        => /\ \A i \in 0 .. (cpu_count - 1) : cpuloads[i] = FullLoad
           /\ duration = -1
           /\ mpc = "join"
                 => \A i \in 0 .. (cpu_count - 1) :
                        i \notin failed => (tpc[i] # "none" /\ threads[i] = i)
           /\ \A t \in Cores : InLoop(t) => tload[t] = FullLoad

\* C12 witness: started without arguments, main is past the spawn loop and
\* a full-load task per detected core is inside loadgen
C12_Witness ==
    /\ Len(argv) = 0 /\ mpc = "join" /\ cpu_count = MaxCpu
    /\ \A i \in 0 .. (cpu_count - 1) : tpc[i] = "burst" /\ tload[i] = FullLoad

\* the command line has an argument that validation is to reject: a core
\* index outside [0, number of cores), a load outside [1, 100], a duration
\* < 1, text that is no argument, a core index or the duration given twice
InvalidArgv ==
    \E i \in 1 .. Len(argv) :
        LET a == argv[i] IN
        \/ a.c = "c" /\ (a.ret # 2 \/ a.n < 0 \/ a.n >= sysconf
                            \/ a.v < 1 \/ a.v > 100)
        \/ a.c = "d" /\ (a.ret # 1 \/ a.v < 1)
        \/ a.c \notin {"c", "d"}
        \/ \E j \in 1 .. (i - 1) :
              argv[j].c = a.c /\ (a.c = "d" \/ argv[j].n = a.n)

\* C13: on an invalid command line main never enters its spawn loop, no
\* thread is ever created and no handle is stored, and main returns only
\* a non-zero value, so the process exits with a non-zero code.
C13_ValidationBeforeStart ==
    InvalidArgv
        => /\ mpc \in {"start", "parse", "ret"}
           /\ \A t \in Cores : tpc[t] = "none"
           /\ allocated => \A i \in Cores : threads[i] = Unset
           /\ mpc = "ret" => ret # 0
           /\ proc = "exited" => exitCode # 0

\* C13 witness: the second argument is the invalid one, after an accepted
\* "cpu<n>=<load>", and the process has exited with -EINVAL
C13_Witness ==
    /\ Len(argv) = 2 /\ InvalidArgv
    /\ argv[1].c = "c" /\ argv[1].n \in Cores
    /\ cpuloads[argv[1].n] = argv[1].v
    /\ proc = "exited" /\ exitCode = -EINVAL
    /\ \A t \in Cores : tpc[t] = "none"

\* C14: every task inside loadgen runs with the load that validation
\* stored for its core and, when a duration limit was given, with that
\* duration; no step of main, of a task or of the signal handler makes
\* the configuration a task uses differ from the validated one.
C14_ConfigurationImmutable ==
    \A t \in Cores :
        InLoop(t) => /\ tload[t] = cpuloads[t]
                     /\ duration >= 1 => tdur[t] = duration

(* ------------------- the whole program, no SIGTERM ---------------------- *)

\* every step of main and of the threads and the clock; no signal arrives
RunNext ==
    \/ StartupNext
    \/ main_join
    \/ main_free
    \/ \E t \in Cores : loadgen_burst(t)
    \/ \E t \in Cores : loadgen_sleep(t)
    \/ \E t \in Cores : loadgen_check(t)
    \/ Tick

RunSpec == Init /\ [][RunNext]_vars

\* C15: a task that has captured its index can always take its next step
\* (call of loadgen, burst, sleep, deadline check), whatever main and the
\* other tasks do, and its steps leave the mutex alone; main can take its
\* next step everywhere but in the join loop and at the lock of the spawn
\* loop, and at that lock it waits only while a created thread has not yet
\* captured its index (or the mutex was left locked by a failed
\* pthread_create), never for a task that has captured.
C15_TaskIndependence ==
    /\ [](Running =>
            /\ \A t \in Cores :
                  /\ tpc[t] = "started" => ENABLED thread_loadgen_call(t)
                  /\ tpc[t] = "burst" => ENABLED loadgen_burst(t)
                  /\ tpc[t] = "sleep" => ENABLED loadgen_sleep(t)
                  /\ tpc[t] = "check" => ENABLED loadgen_check(t)
            /\ mpc = "start" => ENABLED main_start
            /\ mpc = "parse" => ENABLED main_parse
            /\ mpc = "create" => ENABLED main_create
            /\ mpc = "free" => ENABLED main_free
            /\ mpc = "ret" => ENABLED main_return
            /\ (mpc = "spawn" /\ failed = {}
                    /\ \A t \in Cores : tpc[t] # "created")
                  => ENABLED main_spawn)
    /\ [][\A t \in Cores :
            (Captured(t) /\ tpc'[t] # tpc[t]) => mutex1' = mutex1]_vars

\* C15 witness: main has locked the mutex for the task of core 1 while the
\* task of core 0, which has captured its index, is still inside its loop
C15_Witness ==
    /\ mpc = "create" /\ mi = 1 /\ mutex1 = "locked"
    /\ tpc[0] = "check" /\ tcpu[0] = 0 /\ now > tstart[0]

\* the idle time of a burst is a value of unsigned int, so that the
\* conversion of line 392 is defined
IdleRepresentable(load, active) ==
    LoadPlusOne(load) # 0 /\ IdleTime(load, active) \in 0 .. UIntMax

C17_DeadlineCheck ==
    [][\A t \in Cores :
          (InLoop(t) /\ tpc'[t] = "done" /\ duration >= 1)
              => (tpc[t] = "check" /\ now - tstart[t] >= duration)]_vars

\* C18: a task with a load in [1, 99] moves through its loop only as
\* burst -> sleep -> deadline check -> (burst | end): the check of an
\* iteration is reached only through that iteration's sleep and the sleep
\* only through its burst, so a burst and a sleep precede the first check
\* and a sleep lies between any two bursts.  The sleep issued is the idle
\* time computed from the cost of the burst of the same iteration (where
\* that idle time is a value of unsigned int), and at the sleep and at the
\* check the cost of that burst is the one in use.
C18_PartialLoadOrdering ==
    /\ [](\A t \in Cores :
            (tload[t] \in 1 .. 99 /\ tpc[t] \in {"sleep", "check"})
                => tactive[t] \in ActiveTimes)
    /\ [][\A t \in Cores :
            (InLoop(t) /\ tload[t] \in 1 .. 99 /\ tpc'[t] # tpc[t])
                => \/ /\ tpc[t] = "burst" /\ tpc'[t] = "sleep"
                      /\ tactive'[t] \in ActiveTimes
                   \/ /\ tpc[t] = "sleep" /\ tpc'[t] = "check"
                      /\ tactive'[t] = tactive[t]
                      /\ IdleRepresentable(tload[t], tactive[t])
                            => tsleep'[t] = IdleTime(tload[t], tactive[t])
                   \/ /\ tpc[t] = "check" /\ tpc'[t] \in {"burst", "done"}]_vars

\* C18 witness: a partial-load task at the deadline check of an iteration
\* whose burst cost 4 us and whose sleep was the idle time of that burst
C18_Witness ==
    \E t \in Cores :
        /\ tpc[t] = "check" /\ tload[t] \in 1 .. 98
        /\ tactive[t] = 4 /\ tsleep[t] = IdleTime(tload[t], 4) /\ tsleep[t] > 0

(* --------------- the idle time, for every load and cost ---------------- *)

\* largest burst cost (microseconds) drawn for the idle-time computation
MaxActive == 5

\* The program as in LoadgenInit, started as "cpuloadgen cpu0=<load>" with
\* a load in [1, 99], right after a burst of its task that was measured to
\* cost a microseconds (lines 371-375), for every a in 0 .. MaxActive.
IdleInit ==
    \E load \in 1 .. 99, a \in 0 .. MaxActive :
        /\ argv = <<CpuArg(0, load)>>
        /\ sysconf = MaxCpu
        /\ cpu_count = MaxCpu
        /\ cpuloads = [i \in Cores |-> IF i = 0 THEN load ELSE Unset]
        /\ threads = [i \in Cores |-> IF i = 0 THEN 0 ELSE Unset]
        /\ duration = Unset
        /\ allocated = TRUE
        /\ frees = [threads |-> 0, cpuloads |-> 0]
        /\ mutex1 = "unlocked"
        /\ mpc = "join"
        /\ mi = 0
        /\ cpu = 0
        /\ ret = 0
        /\ nfail = 0
        /\ failed = {}
        /\ tpc = [t \in Cores |-> IF t = 0 THEN "sleep" ELSE "none"]
        /\ tcpu = [t \in Cores |-> 0]
        /\ tload = [t \in Cores |-> IF t = 0 THEN ToUInt(load) ELSE 0]
        /\ tdur = [t \in Cores |-> IF t = 0 THEN ToUInt(Unset) ELSE 0]
        /\ tstart = [t \in Cores |-> 0]
        /\ tactive = [t \in Cores |-> IF t = 0 THEN a ELSE 0]
        /\ tsleep = [t \in Cores |-> 0]
        /\ now = 0
        /\ sigs = 0
        /\ signalled = {}
        /\ proc = "running"
        /\ exitCode = 0

IdleSpec == IdleInit /\ [][LoadgenNext]_vars

\* C19: for a task that slept after a burst of cost a >= 0 at a load in
\* [1, 99], the idle time it computed is at most the idle time of every
\* smaller load and at least that of every larger load for the same a (so
\* the idle time is non-increasing in the load and largest at load 1); at
\* load 1 it is 49 * a and at load 99 it is 0.
C19_IdleMonotone ==
    \A t \in Cores :
        (/\ tpc[t] = "check" /\ tload[t] \in 1 .. 99 /\ tactive[t] >= 0
         /\ IdleRepresentable(1, tactive[t]))
            => /\ \A l \in 1 .. 99 :
                    /\ l <= tload[t] => IdleTime(l, tactive[t]) >= tsleep[t]
                    /\ l >= tload[t] => IdleTime(l, tactive[t]) <= tsleep[t]
               /\ \A l \in 1 .. 98 :
                    IdleTime(l, tactive[t]) >= IdleTime(l + 1, tactive[t])
               /\ tsleep[t] >= 0
               /\ tload[t] = 1 => tsleep[t] = 49 * tactive[t]
               /\ tload[t] = 99 => tsleep[t] = 0

\* C19 witness: a task at load 99 has slept 0 after a burst of the largest
\* cost, for which load 1 gives a longer idle time
C19_Witness ==
    \E t \in Cores :
        /\ tpc[t] = "check" /\ tload[t] = 99 /\ tactive[t] = MaxActive
        /\ tsleep[t] = 0 /\ IdleTime(1, tactive[t]) > 0

\* main is at the pthread_join call of line 311 for core mi: it is in the
\* join loop and the core was not skipped by line 308
AtJoinCall == Running /\ mpc = "join" /\ mi < cpu_count /\ cpuloads[mi] # Unset

\* C20: whenever main is at a pthread_join call, the handle it passes was
\* stored by a successful pthread_create for that core: the core's
\* creation did not fail and threads[mi] is not the placeholder -1.
C20_JoinTargetsValid ==
    AtJoinCall => /\ mi \notin failed
                  /\ threads[mi] # Unset
                  /\ ValidHandle(threads[mi])

=============================================================================
